---- MODULE Spec2Model ----
(***************************************************************************)
(* A model of torchio's RandomAffine transform                             *)
(* (torchio/transforms/augmentation/spatial/random_affine.py).             *)
(*                                                                         *)
(* Four specifications share the variables:                                *)
(*   Spec         apply_transform on a subject, one step per statement     *)
(*                group of the method and one step per loop iteration;     *)
(*   SpecParams   the constructor followed by get_params;                  *)
(*   SpecAffine   apply_affine_transform on one volume (geometry, dtype);  *)
(*   SpecBorders  get_borders_mean on one 3D array.                        *)
(* Floats are modelled by integers and by rationals <<num, den>>.          *)
(***************************************************************************)
EXTENDS Integers, Sequences, FiniteSets, TLC

VARIABLES
    self,       \* the RandomAffine object (its attributes) or the constructor's exception
    pc,         \* position inside the running method
    sample,     \* the Subject: a sequence of entries (dict in insertion order)
    rng,        \* number of values consumed from the torch random source
    draws,      \* the values uniform_ produced: <<scale draws, rotation draws>>
    params,     \* what get_params returned: <<scaling_params, rotation_params>>
    n_get_params, \* number of get_params invocations of the running call
    calls,      \* arguments of every apply_affine_transform invocation, in order
    i,          \* index of the next entry of sample.values() to visit
    vol,        \* SpecAffine: the tensor, its affine and the call's arguments
    res,        \* SpecAffine: outcome of apply_affine_transform
    image,      \* SpecBorders: the 3D array handed to get_borders_mean
    bm          \* SpecBorders: outcome of get_borders_mean

vars == <<self, pc, sample, rng, draws, params, n_get_params, calls, i,
          vol, res, image, bm>>

Null == [none |-> TRUE]

(***************************************************************************)
(* Bounds of the model.                                                    *)
(***************************************************************************)
MaxEntries == 2     \* entries of a subject before the transform is applied
MaxSide == 3        \* largest spatial side of a volume in Spec / SpecAffine
MaxBorderSide == 4  \* largest side of the array in SpecBorders
MaxIntensity == 2   \* intensities of SpecBorders are in 0..MaxIntensity

(***************************************************************************)
(* Small helpers.                                                          *)
(***************************************************************************)
Triple(S) == [1..3 -> S]

RECURSIVE SumRange(_, _, _)
\* s[lo] + ... + s[hi]
SumRange(s, lo, hi) ==
    IF lo > hi THEN 0
    ELSE IF lo = hi THEN s[lo]
    ELSE LET mid == (lo + hi) \div 2
         IN SumRange(s, lo, mid) + SumRange(s, mid + 1, hi)

SeqSum(s) == SumRange(s, 1, Len(s))

\* s[s < t] for a rational t = <<num, den>>
SeqFilterLess(s, t) ==
    LET below(v) == v * t[2] < t[1]
    IN SelectSeq(s, below)

RECURSIVE Concat(_)
\* np.hstack of a sequence of flat sequences
Concat(ss) == IF ss = <<>> THEN <<>> ELSE Head(ss) \o Concat(Tail(ss))

SeqMin(s) == CHOOSE m \in {s[k] : k \in 1..Len(s)} : \A k \in 1..Len(s) : m <= s[k]
SeqMax(s) == CHOOSE m \in {s[k] : k \in 1..Len(s)} : \A k \in 1..Len(s) : m >= s[k]

\* rationals <<num, den>> with den > 0
RatEq(a, b) == a[1] * b[2] = b[1] * a[2]

(***************************************************************************)
(* The constructor.                                                        *)
(***************************************************************************)
Interpolations == {"NEAREST", "LINEAR", "BSPLINE"}

\* default_pad_value is a string or a number
PadStr(s) == [kind |-> "str", s |-> s, n |-> 0]
PadNum(n) == [kind |-> "num", s |-> "", n |-> n]

\* degrees is one number d or a pair (a, b)
DegNumber(d) == [kind |-> "number", a |-> d, b |-> d]
DegRange(a, b) == [kind |-> "range", a |-> a, b |-> b]

\* parse_default_value: [ok, value]
parse_default_value(value) ==
    IF value.kind = "num" \/ value.s \in {"minimum", "otsu", "mean"}
    THEN [ok |-> TRUE, value |-> value]
    ELSE [ok |-> FALSE, value |-> value]

\* RandomTransform.parse_degrees: a number d >= 0 becomes (-d, d); a pair
\* must be ordered
parse_degrees(degrees) ==
    IF degrees.kind = "number"
    THEN IF degrees.a < 0
         THEN [ok |-> FALSE, value |-> <<0, 0>>]
         ELSE [ok |-> TRUE, value |-> <<0 - degrees.a, degrees.a>>]
    ELSE IF degrees.a > degrees.b
         THEN [ok |-> FALSE, value |-> <<0, 0>>]
         ELSE [ok |-> TRUE, value |-> <<degrees.a, degrees.b>>]

\* Transform.parse_interpolation: only members of the Interpolation enum pass
parse_interpolation(interpolation) ==
    IF interpolation \in Interpolations
    THEN [ok |-> TRUE, value |-> interpolation]
    ELSE [ok |-> FALSE, value |-> interpolation]

NoObject == [status |-> "none", scales |-> <<0, 0>>, degrees |-> <<0, 0>>,
             isotropic |-> FALSE, default_pad_value |-> PadStr(""),
             interpolation |-> ""]

Raised(exc) == [NoObject EXCEPT !.status = exc]

\* RandomAffine.__init__: the attributes of the new object, or the exception
\* of the first parser that rejects its argument
RandomAffine(scales, degrees, isotropic, default_pad_value, image_interpolation) ==
    IF ~parse_degrees(degrees).ok THEN Raised("ValueError")
    ELSE IF ~parse_default_value(default_pad_value).ok THEN Raised("ValueError")
    ELSE IF ~parse_interpolation(image_interpolation).ok THEN Raised("TypeError")
    ELSE [status |-> "ok",
          scales |-> scales,
          degrees |-> parse_degrees(degrees).value,
          isotropic |-> isotropic,
          default_pad_value |-> parse_default_value(default_pad_value).value,
          interpolation |-> parse_interpolation(image_interpolation).value]

(***************************************************************************)
(* get_params.                                                             *)
(***************************************************************************)
\* torch.FloatTensor(3).uniform_(lo, hi): the triples it can produce.  With
\* lo > hi the outcome depends on the torch build: a RuntimeError, or values
\* between hi and lo.
uniform_(range) ==
    IF range[1] <= range[2] THEN Triple(range[1]..range[2])
    ELSE Triple(range[2]..range[1])

uniform_may_raise(range) == range[1] > range[2]

\* a fill_ that leaves the last axis as drawn
fill_keeps_last(t, v) == [k \in 1..3 |-> IF k = 3 THEN t[k] ELSE v]

\* scaling_params.fill_(scaling_params[0])
fill_(t, v) == [k \in 1..3 |-> v]

\* get_params given the values the two uniform_ calls produced
get_params(scale_draws, rotation_draws, isotropic) ==
    LET scaling_params == IF isotropic THEN fill_(scale_draws, scale_draws[1])
                          ELSE scale_draws
    IN <<scaling_params, rotation_draws>>

(***************************************************************************)
(* Geometry: points are triples of rationals, angles are degrees that are  *)
(* multiples of 90 wherever a rotation matrix is evaluated.                *)
(***************************************************************************)
Rat(n) == <<n, 1>>
RatAdd(a, b) == <<a[1] * b[2] + b[1] * a[2], a[2] * b[2]>>
RatSub(a, b) == <<a[1] * b[2] - b[1] * a[2], a[2] * b[2]>>
RatMul(a, b) == <<a[1] * b[1], a[2] * b[2]>>
PointEq(p, q) == \A k \in 1..3 : RatEq(p[k], q[k])
Origin3 == [k \in 1..3 |-> Rat(0)]

\* cosine and sine of an angle given in degrees (multiples of 90)
Cos(deg) == CASE deg % 360 = 0 -> 1
              [] deg % 360 = 90 -> 0
              [] deg % 360 = 180 -> 0 - 1
              [] deg % 360 = 270 -> 0
Sin(deg) == CASE deg % 360 = 0 -> 0
              [] deg % 360 = 90 -> 1
              [] deg % 360 = 180 -> 0
              [] deg % 360 = 270 -> 0 - 1

\* get_scaling_transform: sitk.ScaleTransform(3) with scale 1 / scaling_params;
\* the center is the constructor's default, the physical origin
get_scaling_transform(scaling_params) ==
    [scale |-> [k \in 1..3 |-> <<1, scaling_params[k]>>],
     center |-> Origin3]

\* get_rotation_transform: sitk.Euler3DTransform() with the three angles;
\* the center is the constructor's default, the physical origin
get_rotation_transform(degrees) ==
    [angles |-> degrees,
     center |-> Origin3]

\* ScaleTransform::TransformPoint: center + scale * (p - center)
ScalePoint(t, p) ==
    [k \in 1..3 |-> RatAdd(t.center[k], RatMul(t.scale[k], RatSub(p[k], t.center[k])))]

\* Euler3DTransform (ZXY): matrix Rz * Rx * Ry
EulerMatrix(a) ==
    LET cx == Cos(a[1])  sx == Sin(a[1])
        cy == Cos(a[2])  sy == Sin(a[2])
        cz == Cos(a[3])  sz == Sin(a[3])
    IN << <<cz * cy - sz * sx * sy, 0 - sz * cx, cz * sy + sz * sx * cy>>,
          <<sz * cy + cz * sx * sy, cz * cx, sz * sy - cz * sx * cy>>,
          <<0 - cx * sy, sx, cx * cy>> >>

\* Euler3DTransform::TransformPoint: center + R * (p - center)
RotatePoint(t, p) ==
    LET R == EulerMatrix(t.angles)
        d == [k \in 1..3 |-> RatSub(p[k], t.center[k])]
    IN [r \in 1..3 |->
          RatAdd(t.center[r],
                 RatAdd(RatMul(Rat(R[r][1]), d[1]),
                        RatAdd(RatMul(Rat(R[r][2]), d[2]),
                               RatMul(Rat(R[r][3]), d[3]))))]

\* sitk composite transform after AddTransform(scaling), AddTransform(rotation):
\* the transform added last is applied first
TransformPoint(transform, p) ==
    ScalePoint(transform.scaling, RotatePoint(transform.rotation, p))

\* the sitk image of a 3D array and its affine (diagonal affine: spacing, origin)
nib_to_sitk(shape3, affine) ==
    [size |-> shape3, spacing |-> affine.spacing, origin |-> affine.origin]

\* physical position of the middle of the grid: origin + spacing * (size - 1) / 2
PhysicalCenter(img) ==
    [k \in 1..3 |-> <<2 * img.origin[k] + img.spacing[k] * (img.size[k] - 1), 2>>]

(***************************************************************************)
(* get_borders_mean.  An array is [shape |-> <<n1, n2, n3>>, at |-> f]     *)
(* with f[<<a, b, c>>] the intensity at (1-based) index (a, b, c).         *)
(***************************************************************************)
NumberOfHistogramBins == 128

\* the flattened 2D slice of the array with index idx along axis
Slab(array, axis, idx) ==
    LET n == array.shape
        o1 == IF axis = 1 THEN 2 ELSE 1
        o2 == IF axis = 3 THEN 2 ELSE 3
        pos(u, v) == [k \in 1..3 |-> IF k = axis THEN idx
                                     ELSE IF k = o1 THEN u ELSE v]
    IN [k \in 1..(n[o1] * n[o2]) |->
          array.at[pos(((k - 1) \div n[o2]) + 1, ((k - 1) % n[o2]) + 1)]]

\* the slices listed once each: both ends of every axis
BorderSlabsOnce(array) ==
    << Slab(array, 1, 1), Slab(array, 1, array.shape[1]),
       Slab(array, 2, 1), Slab(array, 2, array.shape[2]),
       Slab(array, 3, 1), Slab(array, 3, array.shape[3]) >>

\* the tuple handed to np.array: array[0], array[-1], array[0, :, :],
\* array[-1, :, :], array[:, 0, :], array[:, -1, :], array[:, :, 0],
\* array[:, :, -1]
BorderSlabs(array) ==
    << Slab(array, 1, 1), Slab(array, 1, array.shape[1]),
       Slab(array, 1, 1), Slab(array, 1, array.shape[1]),
       Slab(array, 2, 1), Slab(array, 2, array.shape[2]),
       Slab(array, 3, 1), Slab(array, 3, array.shape[3]) >>

\* the slices do not all have the same 2D shape: np.array of them is not a
\* regular array, and whether it is built at all depends on the numpy build
Ragged(shape3) == ~(shape3[1] = shape3[2] /\ shape3[2] = shape3[3])

\* arithmetic mean as the rational <<sum, count>>
Mean(s) == <<SeqSum(s), Len(s)>>

\* values.any(): some element is nonzero
any(s) == \E k \in 1..Len(s) : s[k] # 0

\* between-class variance of the split {v <= k}, {v > k}, up to the constant
\* factor 1 / N^2, as a rational
OtsuScore(s, k) ==
    LET lowIdx == {j \in 1..Len(s) : s[j] <= k}
        n0 == Cardinality(lowIdx)
        n1 == Len(s) - n0
        s0 == SeqSum(SeqFilterLess(s, <<k + 1, 1>>))
        s1 == SeqSum(s) - s0
        d == s0 * n1 - s1 * n0
    IN <<d * d, n0 * n1>>

RatLess(a, b) == a[1] * b[2] < b[1] * a[2]

\* sitk.OtsuThresholdImageFilter on the 1 x 1 x N image of the border values:
\* the upper edge of the first histogram bin that maximises the between-class
\* variance; the value itself when all values are equal
OtsuThreshold(s) ==
    LET lo == SeqMin(s)
        hi == SeqMax(s)
        range == hi - lo
        best == CHOOSE k \in lo..(hi - 1) :
                    /\ \A j \in lo..(hi - 1) : ~RatLess(OtsuScore(s, k), OtsuScore(s, j))
                    /\ \A j \in lo..(k - 1) : RatLess(OtsuScore(s, j), OtsuScore(s, k))
        bin == ((best - lo) * NumberOfHistogramBins) \div range
    IN IF range = 0 THEN <<lo, 1>>
       ELSE <<NumberOfHistogramBins * lo + (bin + 1) * range, NumberOfHistogramBins>>

\* get_borders_mean when np.array(...) of the slices succeeds
borders_mean_value(array, filter_otsu) ==
    LET borders == Concat(BorderSlabs(array))
        threshold == OtsuThreshold(borders)
        values == SeqFilterLess(borders, threshold)
    IN IF ~filter_otsu THEN Mean(borders)
       ELSE IF any(values) THEN Mean(values)
       ELSE Mean(borders)

\* get_borders_mean: the set of outcomes
get_borders_mean(array, filter_otsu) ==
    {[ok |-> TRUE, value |-> borders_mean_value(array, filter_otsu)]}
    \cup (IF Ragged(array.shape) THEN {[ok |-> FALSE, value |-> <<0, 1>>]} ELSE {})

(***************************************************************************)
(* apply_affine_transform.  A tensor is [shape, dtype, content]; the       *)
(* content records how the intensities were produced, not their values.    *)
(***************************************************************************)
Dtypes == {"float32", "float64", "int16"}

OriginalContent == [resampled |-> FALSE]

\* get_sitk_interpolator
get_sitk_interpolator(interpolation) ==
    CASE interpolation = "NEAREST" -> "sitkNearestNeighbor"
      [] interpolation = "LINEAR" -> "sitkLinear"
      [] interpolation = "BSPLINE" -> "sitkBSpline"

\* the fill value, lines 162-169
default_value_of(obj) ==
    IF obj.default_pad_value.kind = "str" /\ obj.default_pad_value.s = "minimum"
    THEN [from |-> "tensor.min", filter_otsu |-> FALSE, n |-> 0]
    ELSE IF obj.default_pad_value.kind = "str" /\ obj.default_pad_value.s = "mean"
    THEN [from |-> "get_borders_mean", filter_otsu |-> FALSE, n |-> 0]
    ELSE IF obj.default_pad_value.kind = "str" /\ obj.default_pad_value.s = "otsu"
    THEN [from |-> "get_borders_mean", filter_otsu |-> TRUE, n |-> 0]
    ELSE [from |-> "number", filter_otsu |-> FALSE, n |-> obj.default_pad_value.n]

\* tensor[0] = torch.from_numpy(np_array): the values are copied into the
\* existing tensor, which keeps its own dtype
setitem(tensor, np_array) == [tensor EXCEPT !.content = np_array]

\* apply_affine_transform: the set of outcomes [ok, exc, tensor]
apply_affine_transform(obj, tensor, affine, scaling_params, rotation_params, interpolation) ==
    IF Len(tensor.shape) # 4 \/ tensor.shape[1] # 1
    THEN {[ok |-> FALSE, exc |-> "failed_assert", tensor |-> tensor]}
    ELSE
      LET sitk_image == nib_to_sitk(Tail(tensor.shape), affine)
          transform == [scaling |-> get_scaling_transform(scaling_params),
                        rotation |-> get_rotation_transform(rotation_params)]
          default_value == default_value_of(obj)
          resampled == [resampled |-> TRUE,
                        transform |-> transform,
                        interpolator |-> get_sitk_interpolator(interpolation),
                        reference |-> sitk_image,
                        default_value |-> default_value,
                        pixel_type |-> "sitkFloat32"]
      IN {[ok |-> TRUE, exc |-> "", tensor |-> setitem(tensor, resampled)]}
         \cup (IF default_value.from = "get_borders_mean" /\ Ragged(sitk_image.size)
               THEN {[ok |-> FALSE, exc |-> "failed_borders", tensor |-> tensor]}
               ELSE {})

(***************************************************************************)
(* The subject and apply_transform.                                        *)
(***************************************************************************)
IdentityAffine == [spacing |-> <<1, 1, 1>>, origin |-> <<0, 0, 0>>]

ImageEntry(name, type, tensor) ==
    [name |-> name, kind |-> "image", type |-> type, data |-> tensor,
     affine |-> IdentityAffine, value |-> <<>>]

OtherEntry(name, value) ==
    [name |-> name, kind |-> "other", type |-> "", data |-> Null,
     affine |-> Null, value |-> value]

\* utils.is_image_dict
is_image_dict(entry) == entry.kind = "image"

ImageIdx(subject) == {j \in 1..Len(subject) : is_image_dict(subject[j])}

\* Subject.check_consistent_shape: TRUE when it returns, FALSE when it raises
check_consistent_shape(subject) ==
    \A j, k \in ImageIdx(subject) : subject[j].data.shape = subject[k].data.shape

\* lines 92-93 with both entries holding the rotation parameters
record_params_rotation_twice(subject, scaling_params, rotation_params) ==
    Append(Append(subject, OtherEntry(<<"random_scaling", 0>>, rotation_params)),
           OtherEntry(<<"random_rotation", 0>>, rotation_params))

\* sample['random_scaling'] = scaling_params
\* sample['random_rotation'] = rotation_params
record_params(subject, scaling_params, rotation_params) ==
    Append(Append(subject, OtherEntry(<<"random_scaling", 0>>, scaling_params)),
           OtherEntry(<<"random_rotation", 0>>, rotation_params))

\* the configured interpolation for every image, labels included
select_interpolation_ignoring_type(obj, image_dict) == obj.interpolation

\* lines 97-100
select_interpolation(obj, image_dict) ==
    IF image_dict.type = "LABEL" THEN "NEAREST" ELSE obj.interpolation

(***************************************************************************)
(* SpecParams: the constructor, then get_params on the object's own        *)
(* attributes (random_affine.py lines 90-91).                              *)
(***************************************************************************)
ScalesArgs == {<<1, 2>>, <<2, 2>>, <<2, 1>>}
DegreesArgs == {DegNumber(1), DegNumber(0 - 1), DegRange(0, 1), DegRange(1, 0)}
PadArgs == {PadStr("otsu"), PadStr("minimum"), PadStr("mean"), PadNum(0), PadStr("median")}
InterpolationArgs == Interpolations \cup {"cubic"}

InitParams ==
    /\ self = NoObject
    /\ pc = "new"
    /\ sample = <<>>
    /\ rng = 0
    /\ draws = Null
    /\ params = Null
    /\ n_get_params = 0
    /\ calls = <<>>
    /\ i = 0
    /\ vol = Null
    /\ res = Null
    /\ image = Null
    /\ bm = Null

\* transform = RandomAffine(scales=..., degrees=..., ...)
Construct ==
    /\ pc = "new"
    /\ \E scales \in ScalesArgs, degrees \in DegreesArgs, isotropic \in BOOLEAN,
          pad \in PadArgs, interpolation \in InterpolationArgs :
          self' = RandomAffine(scales, degrees, isotropic, pad, interpolation)
    /\ pc' = IF self'.status = "ok" THEN "constructed" ELSE "rejected"
    /\ UNCHANGED <<sample, rng, draws, params, n_get_params, calls, i,
                   vol, res, image, bm>>

\* get_params(self.scales, self.degrees, self.isotropic) returns
GetParams ==
    /\ pc = "constructed"
    /\ \E sd \in uniform_(self.scales), rd \in uniform_(self.degrees) :
          /\ draws' = <<sd, rd>>
          /\ params' = get_params(sd, rd, self.isotropic)
    /\ rng' = rng + 6
    /\ n_get_params' = n_get_params + 1
    /\ pc' = "sampled"
    /\ UNCHANGED <<self, sample, calls, i, vol, res, image, bm>>

\* get_params raises inside uniform_ (scales is the first range sampled)
GetParamsRaises ==
    /\ pc = "constructed"
    /\ uniform_may_raise(self.scales)
    /\ n_get_params' = n_get_params + 1
    /\ pc' = "RuntimeError"
    /\ UNCHANGED <<self, sample, rng, draws, params, calls, i, vol, res, image, bm>>

NextParams == Construct \/ GetParams \/ GetParamsRaises

SpecParams == InitParams /\ [][NextParams]_vars

\* C6 (as claimed): an object the constructor accepted has ordered ranges,
\* i.e. a scales or degrees range with low > high never survives construction.
C6_InvalidRangeRejectedAtConstruction ==
    self.status = "ok" =>
        /\ self.scales[1] <= self.scales[2]
        /\ self.degrees[1] <= self.degrees[2]

\* C9: with isotropic the scale triple is three copies of the first value
\* drawn, without it the scale triple is the three values as drawn, and in
\* both cases the rotation triple is the three rotation values as drawn.
C9_IsotropicUsesFirstDraw ==
    pc = "sampled" =>
        /\ params[2] = draws[2]
        /\ self.isotropic =>
              \A k \in 1..3 : params[1][k] = draws[1][1]
        /\ ~self.isotropic => params[1] = draws[1]

C9_Witness ==
    /\ pc = "sampled"
    /\ self.isotropic
    /\ draws[1][1] # draws[1][2]
    /\ draws[1][1] # draws[1][3]
    /\ params[1] = <<draws[1][1], draws[1][1], draws[1][1]>>
    /\ params[2][1] # params[2][2]

(***************************************************************************)
(* SpecBorders: get_borders_mean on one array.  The arrays are a uniform   *)
(* background with one voxel of another intensity.                         *)
(***************************************************************************)
Positions(shape3) == {p \in Triple(1..MaxBorderSide) : \A k \in 1..3 : p[k] <= shape3[k]}

BorderArrays ==
    {[shape |-> sh,
      at |-> [p \in Positions(sh) |-> IF p = hot THEN fg ELSE bg]] :
        sh \in Triple(3..MaxBorderSide), hot \in Triple(1..MaxBorderSide),
        bg \in 0..MaxIntensity, fg \in 0..MaxIntensity}

InitBorders ==
    /\ self = NoObject
    /\ pc = "array"
    /\ sample = <<>>
    /\ rng = 0
    /\ draws = Null
    /\ params = Null
    /\ n_get_params = 0
    /\ calls = <<>>
    /\ i = 0
    /\ vol = Null
    /\ res = Null
    /\ image \in BorderArrays
    /\ bm = Null

\* default_value = get_borders_mean(image, filter_otsu=...)
BordersMean ==
    /\ pc = "array"
    /\ \E filter_otsu \in BOOLEAN :
        \E r \in get_borders_mean(image, filter_otsu) :
            /\ r.ok
            /\ bm' = [filter_otsu |-> filter_otsu, value |-> r.value]
            /\ pc' = "returned"
    /\ UNCHANGED <<self, sample, rng, draws, params, n_get_params, calls, i,
                   vol, res, image>>

\* np.array of slices of different shapes raises
BordersMeanRaises ==
    /\ pc = "array"
    /\ \E filter_otsu \in BOOLEAN :
        \E r \in get_borders_mean(image, filter_otsu) :
            /\ ~r.ok
            /\ bm' = [filter_otsu |-> filter_otsu, value |-> r.value]
            /\ pc' = "ValueError"
    /\ UNCHANGED <<self, sample, rng, draws, params, n_get_params, calls, i,
                   vol, res, image>>

NextBorders == BordersMean \/ BordersMeanRaises

SpecBorders == InitBorders /\ [][NextBorders]_vars

\* C2 (as claimed): without the Otsu filter the result is the mean of the six
\* face slices, each taken once.
C2_MeanOfSixFaces ==
    (pc = "returned" /\ ~bm.filter_otsu) =>
        RatEq(bm.value, Mean(Concat(BorderSlabsOnce(image))))

\* C3 (as claimed): with the Otsu filter the result is the mean of the border
\* values below the threshold when there is one, also when they are all 0,
\* and the mean of all border values exactly when there is none.
C3_FilteredMeanWheneverNonEmpty ==
    (pc = "returned" /\ bm.filter_otsu) =>
        LET borders == Concat(BorderSlabs(image))
            values == SeqFilterLess(borders, OtsuThreshold(borders))
        IN IF values # <<>> THEN RatEq(bm.value, Mean(values))
           ELSE RatEq(bm.value, Mean(borders))

(***************************************************************************)
(* Spec: transform.apply_transform(sample).                                *)
(***************************************************************************)
\* the objects the constructor returns for the arguments of the model
Objects ==
    {o \in {RandomAffine(scales, DegRange(0, 1), isotropic, pad, interpolation) :
                scales \in {<<1, 2>>, <<2, 1>>}, isotropic \in BOOLEAN,
                pad \in {PadStr("otsu"), PadStr("minimum"), PadStr("mean"), PadNum(0)},
                interpolation \in Interpolations} :
        o.status = "ok"}

Shapes == {<<1, 2, 2, 2>>, <<1, 2, 2, MaxSide>>, <<2, 2, 2, 2>>}

EntryKinds ==
    {ImageEntry(<<"image", 0>>, type, [shape |-> sh, dtype |-> "float32",
                                        content |-> OriginalContent]) :
        type \in {"INTENSITY", "LABEL"}, sh \in Shapes}
    \cup {OtherEntry(<<"other", 0>>, <<>>)}

Subjects ==
    UNION {{[j \in 1..n |-> [f[j] EXCEPT !.name = <<f[j].name[1], j>>]] :
               f \in [1..n -> EntryKinds]} : n \in 0..MaxEntries}

Init ==
    /\ self \in Objects
    /\ pc = "start"
    /\ sample \in Subjects
    /\ rng = 0
    /\ draws = Null
    /\ params = Null
    /\ n_get_params = 0
    /\ calls = <<>>
    /\ i = 0
    /\ vol = Null
    /\ res = Null
    /\ image = Null
    /\ bm = Null

\* line 89 placed after the sampling: the random source is consumed first
CheckShapeAfterSampling ==
    /\ pc = "start"
    /\ pc' = IF check_consistent_shape(sample) THEN "checked" ELSE "failed_shape"
    /\ rng' = rng + 6
    /\ UNCHANGED <<self, sample, draws, params, n_get_params, calls, i,
                   vol, res, image, bm>>

\* line 89: sample.check_consistent_shape()
CheckShape ==
    /\ pc = "start"
    /\ pc' = IF check_consistent_shape(sample) THEN "checked" ELSE "failed_shape"
    /\ UNCHANGED <<self, sample, rng, draws, params, n_get_params, calls, i,
                   vol, res, image, bm>>

\* lines 90-93: get_params returns and both entries are written
SampleParams ==
    /\ pc = "checked"
    /\ \E sd \in uniform_(self.scales), rd \in uniform_(self.degrees) :
          /\ draws' = <<sd, rd>>
          /\ params' = get_params(sd, rd, self.isotropic)
    /\ sample' = record_params(sample, params'[1], params'[2])
    /\ rng' = rng + 6
    /\ n_get_params' = n_get_params + 1
    /\ i' = 1
    /\ pc' = "loop"
    /\ UNCHANGED <<self, calls, vol, res, image, bm>>

\* lines 90-91: get_params raises inside uniform_
SampleParamsRaises ==
    /\ pc = "checked"
    /\ uniform_may_raise(self.scales)
    /\ n_get_params' = n_get_params + 1
    /\ pc' = "failed_sampling"
    /\ UNCHANGED <<self, sample, rng, draws, params, calls, i, vol, res, image, bm>>

\* lines 95-96: an entry that is not an image record is skipped
SkipEntry ==
    /\ pc = "loop"
    /\ i <= Len(sample)
    /\ ~is_image_dict(sample[i])
    /\ i' = i + 1
    /\ UNCHANGED <<self, pc, sample, rng, draws, params, n_get_params, calls,
                   vol, res, image, bm>>

CallRecord(image_dict, scaling_params, rotation_params, interpolation) ==
    [name |-> image_dict.name, type |-> image_dict.type,
     scaling_params |-> scaling_params, rotation_params |-> rotation_params,
     interpolation |-> interpolation]

\* lines 97-107: one image record is resampled and its data replaced
TransformImage ==
    /\ pc = "loop"
    /\ i <= Len(sample)
    /\ is_image_dict(sample[i])
    /\ LET interpolation == select_interpolation(self, sample[i])
       IN /\ \E r \in apply_affine_transform(self, sample[i].data, sample[i].affine,
                                             params[1], params[2], interpolation) :
                /\ r.ok
                /\ sample' = [sample EXCEPT ![i].data = r.tensor]
          /\ calls' = Append(calls, CallRecord(sample[i], params[1], params[2],
                                               interpolation))
    /\ i' = i + 1
    /\ UNCHANGED <<self, pc, rng, draws, params, n_get_params, vol, res, image, bm>>

\* lines 97-107: apply_affine_transform raises
TransformImageRaises ==
    /\ pc = "loop"
    /\ i <= Len(sample)
    /\ is_image_dict(sample[i])
    /\ LET interpolation == select_interpolation(self, sample[i])
       IN /\ \E r \in apply_affine_transform(self, sample[i].data, sample[i].affine,
                                             params[1], params[2], interpolation) :
                /\ ~r.ok
                /\ pc' = r.exc
          /\ calls' = Append(calls, CallRecord(sample[i], params[1], params[2],
                                               interpolation))
    /\ UNCHANGED <<self, sample, rng, draws, params, n_get_params, i,
                   vol, res, image, bm>>

\* line 108: return sample
Return ==
    /\ pc = "loop"
    /\ i > Len(sample)
    /\ pc' = "done"
    /\ UNCHANGED <<self, sample, rng, draws, params, n_get_params, calls, i,
                   vol, res, image, bm>>

Next ==
    \/ CheckShape
    \/ SampleParams
    \/ SampleParamsRaises
    \/ SkipEntry
    \/ TransformImage
    \/ TransformImageRaises
    \/ Return

Spec == Init /\ [][Next]_vars

Failed == pc \in {"failed_shape", "failed_sampling", "failed_assert", "failed_borders"}

Recorded(subject, key) == {j \in 1..Len(subject) : subject[j].name = <<key, 0>>}

Resampled(subject) == {j \in ImageIdx(subject) : subject[j].data.content.resampled}

\* C4 (as claimed): a call ends either in success with every image record
\* resampled and both parameter entries recorded, or in a failure that left
\* no image data replaced and no parameter entry added.
C4_FailureCommitsNothing ==
    /\ pc = "done" =>
          /\ Resampled(sample) = ImageIdx(sample)
          /\ Recorded(sample, "random_scaling") # {}
          /\ Recorded(sample, "random_rotation") # {}
    /\ Failed =>
          /\ Resampled(sample) = {}
          /\ Recorded(sample, "random_scaling") = {}
          /\ Recorded(sample, "random_rotation") = {}

\* C5: when the image records do not all have the same shape, the call has
\* failed at the shape check as soon as it has taken a step, with nothing
\* drawn from the random source, get_params not called, no parameter entry
\* written, no apply_affine_transform call and no image data replaced.
C5_ShapeMismatchFailsFirst ==
    (pc # "start" /\ ~check_consistent_shape(sample)) =>
        /\ pc = "failed_shape"
        /\ rng = 0
        /\ draws = Null
        /\ params = Null
        /\ n_get_params = 0
        /\ Recorded(sample, "random_scaling") = {}
        /\ Recorded(sample, "random_rotation") = {}
        /\ calls = <<>>
        /\ Resampled(sample) = {}

C5_Witness ==
    /\ pc = "failed_shape"
    /\ Cardinality(ImageIdx(sample)) >= 2
    /\ \E j, k \in ImageIdx(sample) :
          /\ sample[j].data.shape[1] = 1
          /\ sample[k].data.shape[1] = 1
          /\ sample[j].data.shape # sample[k].data.shape

\* C7: in a call that succeeded get_params ran once, every image record,
\* intensity or label, was passed to apply_affine_transform once with the
\* triples get_params returned, and the entries random_scaling and
\* random_rotation hold those same triples.
C7_OneSampleForAllImages ==
    pc = "done" =>
        /\ n_get_params = 1
        /\ params = get_params(draws[1], draws[2], self.isotropic)
        /\ Len(calls) = Cardinality(ImageIdx(sample))
        /\ \A j \in ImageIdx(sample) :
              \E c \in 1..Len(calls) : calls[c].name = sample[j].name
        /\ \A c \in 1..Len(calls) :
              /\ calls[c].scaling_params = params[1]
              /\ calls[c].rotation_params = params[2]
        /\ \A j \in ImageIdx(sample) :
              /\ sample[j].data.content.transform.scaling
                    = get_scaling_transform(params[1])
              /\ sample[j].data.content.transform.rotation
                    = get_rotation_transform(params[2])
        /\ Cardinality(Recorded(sample, "random_scaling")) = 1
        /\ Cardinality(Recorded(sample, "random_rotation")) = 1
        /\ \A j \in Recorded(sample, "random_scaling") : sample[j].value = params[1]
        /\ \A j \in Recorded(sample, "random_rotation") : sample[j].value = params[2]

C7_Witness ==
    /\ pc = "done"
    /\ Len(calls) = 2
    /\ calls[1].type # calls[2].type
    /\ params[1] # params[2]
    /\ params[1][1] # params[1][2]

\* C8: every apply_affine_transform call of a Label record is made with
\* nearest-neighbour interpolation whatever the object's interpolation is,
\* every other call with the object's interpolation, the resampler of each
\* image gets the interpolator of that choice, and an entry that is not an
\* image record is never passed to apply_affine_transform nor changed.
C8_LabelsUseNearest ==
    /\ \A c \in 1..Len(calls) :
          /\ calls[c].type = "LABEL" => calls[c].interpolation = "NEAREST"
          /\ calls[c].type # "LABEL" => calls[c].interpolation = self.interpolation
          /\ \E j \in ImageIdx(sample) : sample[j].name = calls[c].name
    /\ \A j \in Resampled(sample) :
          sample[j].data.content.interpolator =
              get_sitk_interpolator(IF sample[j].type = "LABEL" THEN "NEAREST"
                                    ELSE self.interpolation)
    /\ \A j \in 1..Len(sample) :
          ~is_image_dict(sample[j]) =>
              /\ sample[j].data = Null
              /\ \A c \in 1..Len(calls) : calls[c].name # sample[j].name

C8_Witness ==
    /\ pc = "done"
    /\ self.interpolation = "BSPLINE"
    /\ \E j, k \in Resampled(sample) :
          /\ sample[j].type = "LABEL"
          /\ sample[j].data.content.interpolator = "sitkNearestNeighbor"
          /\ sample[k].type = "INTENSITY"
          /\ sample[k].data.content.interpolator = "sitkBSpline"

(***************************************************************************)
(* SpecAffine: self.apply_affine_transform(tensor, affine, scaling_params, *)
(* rotation_params, interpolation) on one tensor.                          *)
(***************************************************************************)
AffineObjects ==
    {o \in {RandomAffine(<<1, 2>>, DegNumber(90), FALSE, pad, "LINEAR") :
                pad \in {PadStr("otsu"), PadStr("minimum")}} :
        o.status = "ok"}

AffineVolumes ==
    [tensor : [shape : {<<1, 2, 2, 2>>, <<1, MaxSide, MaxSide, MaxSide>>,
                        <<1, 2, 2, MaxSide>>, <<2, 2, 2, 2>>},
               dtype : Dtypes,
               content : {OriginalContent}],
     affine : [spacing : {<<1, 1, 1>>, <<1, 1, 2>>},
               origin : {<<0, 0, 0>>, <<0 - 1, 0 - 1, 0 - 1>>, <<0, 3, 0>>}],
     scaling_params : Triple({1, 2}),
     rotation_params : Triple({0 - 90, 0, 90}),
     interpolation : {"NEAREST", "LINEAR"}]

InitAffine ==
    /\ self \in AffineObjects
    /\ pc = "call"
    /\ sample = <<>>
    /\ rng = 0
    /\ draws = Null
    /\ params = Null
    /\ n_get_params = 0
    /\ calls = <<>>
    /\ i = 0
    /\ vol \in AffineVolumes
    /\ res = Null
    /\ image = Null
    /\ bm = Null

\* apply_affine_transform returns the tensor
ApplyAffine ==
    /\ pc = "call"
    /\ \E r \in apply_affine_transform(self, vol.tensor, vol.affine,
                                       vol.scaling_params, vol.rotation_params,
                                       vol.interpolation) :
          /\ r.ok
          /\ res' = r
    /\ pc' = "returned"
    /\ UNCHANGED <<self, sample, rng, draws, params, n_get_params, calls, i,
                   vol, image, bm>>

\* apply_affine_transform raises
ApplyAffineRaises ==
    /\ pc = "call"
    /\ \E r \in apply_affine_transform(self, vol.tensor, vol.affine,
                                       vol.scaling_params, vol.rotation_params,
                                       vol.interpolation) :
          /\ ~r.ok
          /\ res' = r
          /\ pc' = r.exc
    /\ UNCHANGED <<self, sample, rng, draws, params, n_get_params, calls, i,
                   vol, image, bm>>

NextAffine == ApplyAffine \/ ApplyAffineRaises

SpecAffine == InitAffine /\ [][NextAffine]_vars

\* C1 (as claimed): the scale and the rotation transform handed to the
\* resampler are centred on the physical centre of the volume: the centre of
\* the volume is a fixed point of the composed transform.
C1_CenteredOnVolume ==
    pc = "returned" =>
        LET t == res.tensor.content.transform
            c == PhysicalCenter(res.tensor.content.reference)
        IN PointEq(TransformPoint(t, c), c)

\* C10 (as claimed): the tensor apply_affine_transform returns holds float32
\* intensities whatever the dtype of the tensor it was given.
C10_OutputIsFloat32 ==
    pc = "returned" => res.tensor.dtype = "float32"

====
